---- MODULE Spec2Model ----
(***************************************************************************)
(* Model of src/src/utils/deadlockAlgorithm.ts: the availability           *)
(* calculator (calculateAvailableResources), the safety/deadlock detector  *)
(* (detectDeadlock, one action per iteration of its outer loop) and the    *)
(* resource-flow graph builder (generateResourceFlowGraph).                *)
(*                                                                         *)
(* Resource objects live in a heap (address -> object) so that aliasing is *)
(* visible: an array copy [...xs] keeps the addresses, JSON.parse of       *)
(* JSON.stringify allocates fresh ones.  Process objects are never written *)
(* by the code and are kept as values.  Allocation and request maps are    *)
(* functions from resource ids to integers; Object.entries is enumerated   *)
(* in the fixed key order KeyOrder.                                        *)
(***************************************************************************)
EXTENDS Integers, Sequences, FiniteSets, TLC

\* ------------------------------------------------------------- bounds

MaxProcs == 2
MaxRes == 2
MaxQty == 1
MaxTotal == 2
MaxUserActions == 8

\* ------------------------------------------------------------- data

ProcIdOf(i) == <<"P1", "P2", "P3", "P4">>[i]
ResIdOf(i) == <<"R1", "R2", "R3", "R4">>[i]
\* A resource id that names no resource of any generated matrix.
UnknownRes == "RX"
\* Enumeration order of Object.entries over a map.
KeyOrder == <<"R1", "R2", "R3", "R4", "RX">>

Null == <<>>
Some(x) == <<x>>

Range(s) == {s[i] : i \in 1..Len(s)}

RECURSIVE SumOver(_, _)
SumOver(f, S) ==
  IF S = {} THEN 0
  ELSE LET k == CHOOSE k \in S : TRUE IN f[k] + SumOver(f, S \ {k})

\* type Resource (lines 8-13)
Resource(id, total, available, isMultiInstance) ==
  [id |-> id, total |-> total, available |-> available,
   isMultiInstance |-> isMultiInstance]

\* type Process (lines 2-6)
Process(id, allocation, request) ==
  [id |-> id, allocation |-> allocation, request |-> request]

VARIABLES
  heap,                   \* address -> Resource object
  matrix,                 \* the caller's AllocationMatrix: processes, resources (addresses)
  before,                 \* the caller's matrix, by value, when the current call began
  op,                     \* the exported function being called, or "none"
  pc,                     \* "idle", "loop", "afterLoop", "returned"
  workingMatrix,          \* detectDeadlock's local
  availableResources,     \* detectDeadlock's local
  finished,               \* detectDeadlock's local
  safeSequence,           \* detectDeadlock's local
  steps,                  \* detectDeadlock's local
  changeInLastIteration,  \* detectDeadlock's local
  rounds,                 \* iterations of the outer while loop begun so far
  result,                 \* the DetectionResult returned by detectDeadlock
  calcRet,                \* the array (addresses) returned by calculateAvailableResources
  graph,                  \* the value returned by generateResourceFlowGraph
  appMatrix,              \* DeadlockDetector's `matrix` state, edited by ResourceTable
  newResourceInstances,   \* ResourceTable's instance-count input
  newResourceMultiInstance, \* ResourceTable's Multi switch
  detectionResult,        \* DeadlockDetector's detectionResult state (Null or Some)
  activeTab,              \* "graph" or "detection"
  showGraph,              \* DeadlockDetector's showGraph state
  showDetection,          \* DeadlockDetector's showDetection state
  userActions             \* the number of user actions on the application so far

\* The state of the exported functions' callers and of a detectDeadlock call.
algVars == <<heap, matrix, before, op, pc, workingMatrix, availableResources, finished,
             safeSequence, steps, changeInLastIteration, rounds, result, calcRet, graph>>

\* The state of the application's components.
appVars == <<appMatrix, newResourceInstances, newResourceMultiInstance, detectionResult,
             activeTab, showGraph, showDetection, userActions>>

vars == <<algVars, appVars>>

\* The matrix m read through heap h: every resource address replaced by its object.
Deref(h, m) ==
  [processes |-> m.processes,
   resources |-> [i \in 1..Len(m.resources) |-> h[m.resources[i]]]]

\* ------------------------------------------------- calculateAvailableResources

\* resources.find(r => r.id === resourceId): the index of the first match, 0 if none.
FindResource(h, resources, resourceId) ==
  LET hits == {i \in 1..Len(resources) : h[resources[i]].id = resourceId}
  IN IF hits = {} THEN 0 ELSE CHOOSE i \in hits : \A j \in hits : i <= j

\* The calculator without its reset: it subtracts from the stored `available`.
ResetAvailable_Skipped(h, resources) == h

\* resources.forEach(resource => resource.available = resource.total)
ResetAvailable(h, resources) ==
  [a \in DOMAIN h |->
     IF a \in Range(resources) THEN [h[a] EXCEPT !.available = h[a].total] ELSE h[a]]

\* One process's allocation entries subtracted, entry by entry (lines 31-36).
RECURSIVE SubtractEntries(_, _, _, _)
SubtractEntries(h, resources, allocation, keys) ==
  IF keys = {} THEN h
  ELSE LET resourceId == CHOOSE k \in keys : TRUE
           i == FindResource(h, resources, resourceId)
           h2 == IF i # 0
                 THEN [h EXCEPT ![resources[i]].available = @ - allocation[resourceId]]
                 ELSE h
       IN SubtractEntries(h2, resources, allocation, keys \ {resourceId})

\* matrix.processes.forEach(...) (lines 30-37)
RECURSIVE SubtractAllocated(_, _, _, _)
SubtractAllocated(h, resources, processes, n) ==
  IF n > Len(processes) THEN h
  ELSE SubtractAllocated(
         SubtractEntries(h, resources, processes[n].allocation,
                         DOMAIN processes[n].allocation),
         resources, processes, n + 1)

\* The array the calculator works on and returns: [...matrix.resources] (line 22).
CalcResourceArray(resources) == resources

\* calculateAvailableResources(m): the heap after the call.  The returned array is
\* CalcResourceArray(m.resources).
calculateAvailableResources(h, m) ==
  LET resources == CalcResourceArray(m.resources)
  IN SubtractAllocated(ResetAvailable(h, resources), resources, m.processes, 1)

\* ------------------------------------------------------------- detectDeadlock

\* The working matrix sharing the caller's resource objects: no copy.
JSONCopyAddresses_Alias(h, m) == m.resources

\* JSON.parse(JSON.stringify(matrix)) (line 58): every field of a matrix is a string,
\* an integer or a boolean, which the round trip keeps; the resource objects of the
\* copy are fresh, placed after the heap's last address.
JSONCopyAddresses(h, m) == [i \in 1..Len(m.resources) |-> Len(h) + i]

JSONCopyHeap(h, m) ==
  [a \in 1..(Len(h) + Len(m.resources)) |->
     IF a <= Len(h) THEN h[a] ELSE h[m.resources[a - Len(h)]]]

\* availableResources[resourceId] || 0 (lines 100, 111)
OrZero(av, resourceId) == IF resourceId \in DOMAIN av THEN av[resourceId] ELSE 0

InitialAvailable_Totals(h, resources) ==
  [id \in {h[resources[i]].id : i \in 1..Len(resources)} |->
     LET last == CHOOSE i \in 1..Len(resources) :
                   /\ h[resources[i]].id = id
                   /\ \A j \in 1..Len(resources) : h[resources[j]].id = id => j <= i
     IN h[resources[last]].total]

\* workingMatrix.resources.forEach(r => availableResources[r.id] = r.available)
\* (lines 63-66): for an id that occurs twice the last assignment stays.
InitialAvailable(h, resources) ==
  [id \in {h[resources[i]].id : i \in 1..Len(resources)} |->
     LET last == CHOOSE i \in 1..Len(resources) :
                   /\ h[resources[i]].id = id
                   /\ \A j \in 1..Len(resources) : h[resources[j]].id = id => j <= i
     IN h[resources[last]].available]

\* The request test with canFinish overwritten by each entry: the last entry decides.
CanFinish_LastEntryDecides(process, av) ==
  LET present(k) == k \in DOMAIN process.request
      ks == SelectSeq(KeyOrder, present)
  IN Len(ks) = 0
     \/ process.request[ks[Len(ks)]] <= 0
     \/ ~(process.request[ks[Len(ks)]] > OrZero(av, ks[Len(ks)]))

\* The request test of lines 93-104.
CanFinish(process, av) ==
  \A resourceId \in DOMAIN process.request :
     LET requested == process.request[resourceId]
     IN requested <= 0 \/ ~(requested > OrZero(av, resourceId))

\* The release with the wrong sign: the allocation is taken, not given back.
Release_Subtracts(process, av) ==
  [resourceId \in DOMAIN av \cup DOMAIN process.allocation |->
     IF resourceId \in DOMAIN process.allocation
     THEN OrZero(av, resourceId) - process.allocation[resourceId]
     ELSE av[resourceId]]

\* The release net of the request: the requested amounts are taken from the vector.
Release_NetOfRequest(process, av) ==
  [resourceId \in DOMAIN av \cup DOMAIN process.allocation |->
     IF resourceId \in DOMAIN process.allocation
     THEN OrZero(av, resourceId) + process.allocation[resourceId]
          - (IF resourceId \in DOMAIN process.request
             THEN process.request[resourceId] ELSE 0)
     ELSE av[resourceId]]

\* The release of lines 110-112.
Release(process, av) ==
  [resourceId \in DOMAIN av \cup DOMAIN process.allocation |->
     IF resourceId \in DOMAIN process.allocation
     THEN OrZero(av, resourceId) + process.allocation[resourceId]
     ELSE av[resourceId]]

\* The scan without its `finished` test (line 90).
FirstAdmissible_IgnoresFinished(processes, fin, av) ==
  LET ok == {i \in 1..Len(processes) : CanFinish(processes[i], av)}
  IN IF ok = {} THEN 0 ELSE CHOOSE i \in ok : \A j \in ok : i <= j

\* The scan giving up at the first unfinished process that cannot finish.
FirstAdmissible_NoScan(processes, fin, av) ==
  LET open == {i \in 1..Len(processes) : processes[i].id \notin fin}
      first == CHOOSE i \in open : \A j \in open : i <= j
  IN IF open = {} THEN 0
     ELSE IF CanFinish(processes[first], av) THEN first ELSE 0

\* The scan without its break: the last process that can finish is the one admitted.
FirstAdmissible_PicksLast(processes, fin, av) ==
  LET ok == {i \in 1..Len(processes) :
               processes[i].id \notin fin /\ CanFinish(processes[i], av)}
  IN IF ok = {} THEN 0 ELSE CHOOSE i \in ok : \A j \in ok : i >= j

\* The for loop of lines 88-133: the index of the process it admits, 0 if none.
FirstAdmissible(processes, fin, av) ==
  LET ok == {i \in 1..Len(processes) :
               processes[i].id \notin fin /\ CanFinish(processes[i], av)}
  IN IF ok = {} THEN 0 ELSE CHOOSE i \in ok : \A j \in ok : i <= j

\* Unfinished without its filter: every process id.
Unfinished_NoFilter(processes, fin) ==
  [i \in 1..Len(processes) |-> processes[i].id]

\* allProcessIds.filter(id => !finished.has(id)) (lines 125, 137-139)
Unfinished(processes, fin) ==
  LET ids == [i \in 1..Len(processes) |-> processes[i].id]
      keep(id) == id \notin fin
  IN SelectSeq(ids, keep)

RECURSIVE Join(_, _)
Join(ids, sep) ==
  IF Len(ids) = 0 THEN ""
  ELSE IF Len(ids) = 1 THEN ids[1]
  ELSE ids[1] \o sep \o Join(Tail(ids), sep)

AdmissionDescription_AnyEntry(process) ==
  "Process " \o process.id \o " can be executed with the available resources."
  \o (IF DOMAIN process.request # {}
      THEN " Its resource requests can be satisfied." ELSE "")
  \o " After completion, " \o process.id \o " releases its resources."

\* lines 117-121
AdmissionDescription(process) ==
  "Process " \o process.id \o " can be executed with the available resources."
  \o (IF \E r \in DOMAIN process.request : process.request[r] > 0
      THEN " Its resource requests can be satisfied." ELSE "")
  \o " After completion, " \o process.id \o " releases its resources."

Step(description, remaining, av, processed) ==
  [description |-> description, remainingProcesses |-> remaining,
   availableResources |-> av, processedThisRound |-> processed]

SafeSequencePush_Unshift(seq, id) == <<id>> \o seq

\* The push left out: the sequence stays as it was.
SafeSequencePush_Dropped(seq, id) == seq

\* safeSequence.push(process.id) of line 109
SafeSequencePush(seq, id) == Append(seq, id)

NoResult == [deadlocked |-> <<>>, safeSequence |-> Null, steps |-> <<>>]

\* ------------------------------------------------- generateResourceFlowGraph

\* Object.entries(map).filter(([_, amount]) => amount > 0), as keys in KeyOrder.
PositiveKeys_NonNegative(map) ==
  LET pos(k) == k \in DOMAIN map /\ map[k] >= 0 IN SelectSeq(KeyOrder, pos)

\* Object.entries(...).filter(([_, amount]) => amount > 0) of lines 199-200, 212-213
PositiveKeys(map) ==
  LET pos(k) == k \in DOMAIN map /\ map[k] > 0 IN SelectSeq(KeyOrder, pos)

AllocationEdges_Reversed(process) ==
  LET ks == PositiveKeys(process.allocation)
  IN [i \in 1..Len(ks) |->
        [id |-> ks[i] \o "-" \o process.id, source |-> process.id, target |-> ks[i],
         type |-> "allocation", data |-> [amount |-> process.allocation[ks[i]]]]]

\* lines 198-208
AllocationEdges(process) ==
  LET ks == PositiveKeys(process.allocation)
  IN [i \in 1..Len(ks) |->
        [id |-> ks[i] \o "-" \o process.id, source |-> ks[i], target |-> process.id,
         type |-> "allocation", data |-> [amount |-> process.allocation[ks[i]]]]]

\* lines 211-221
RequestEdges(process) ==
  LET ks == PositiveKeys(process.request)
  IN [i \in 1..Len(ks) |->
        [id |-> process.id \o "-" \o ks[i], source |-> process.id, target |-> ks[i],
         type |-> "request", data |-> [amount |-> process.request[ks[i]]]]]

\* matrix.processes.flatMap(...) of lines 198 and 211.
RECURSIVE AllAllocationEdges(_, _)
AllAllocationEdges(processes, n) ==
  IF n > Len(processes) THEN <<>>
  ELSE AllocationEdges(processes[n]) \o AllAllocationEdges(processes, n + 1)

RECURSIVE AllRequestEdges(_, _)
AllRequestEdges(processes, n) ==
  IF n > Len(processes) THEN <<>>
  ELSE RequestEdges(processes[n]) \o AllRequestEdges(processes, n + 1)

\* lines 177-195
GraphNodes(m) ==
  [i \in 1..Len(m.processes) |->
     [id |-> m.processes[i].id, type |-> "process",
      data |-> [label |-> m.processes[i].id]]]
  \o [i \in 1..Len(m.resources) |->
     [id |-> m.resources[i].id, type |-> "resource",
      data |-> [label |-> m.resources[i].id,
                instances |-> m.resources[i].total,
                isMultiInstance |-> m.resources[i].isMultiInstance]]]

generateResourceFlowGraph(m) ==
  [nodes |-> GraphNodes(m),
   edges |-> AllAllocationEdges(m.processes, 1) \o AllRequestEdges(m.processes, 1)]

NoGraph == [nodes |-> <<>>, edges |-> <<>>]

\* ------------------------------------------------------------- inputs

Qty == 0..MaxQty
\* The editor's instance-count field never yields 0 (ResourceTable.tsx line 268).
Totals == 1..MaxTotal

\* The resource list the editor's addResource builds from totals t: available = total
\* on creation.
RegularResources(R, t) ==
  [j \in 1..R |-> Resource(ResIdOf(j), t[j], t[j], t[j] > 1)]

\* A process list whose maps cover exactly the resource ids.
RegularProcesses(N, a, q) ==
  [i \in 1..N |-> Process(ProcIdOf(i), a[i], q[i])]

Without(f, k) == [x \in DOMAIN f \ {k} |-> f[x]]
With(f, k, v) == [x \in DOMAIN f \cup {k} |-> IF x = k THEN v ELSE f[x]]

\* One departure from the data model's expectations: <<kind, index, key, value>>.
Departures(N, R) ==
  LET keys == {ResIdOf(j) : j \in 1..R}
  IN {<<"none", 0, "", 0>>}
     \cup {<<"staleAvailable", j, "", v>> : j \in 1..R, v \in 0..MaxTotal}
     \cup {<<"flippedFlag", j, "", 0>> : j \in 1..R}
     \cup {<<kind, i, k, 0>> :
             kind \in {"negativeAllocation", "negativeRequest",
                       "missingAllocation", "missingRequest"},
             i \in 1..N, k \in keys}
     \cup {<<kind, i, UnknownRes, v>> :
             kind \in {"unknownAllocation", "unknownRequest"}, i \in 1..N, v \in 1..MaxQty}
     \cup {<<"repeatedProcessId", i, "", 0>> : i \in 2..N}
     \cup {<<"repeatedResourceId", j, "", 0>> : j \in 2..R}

Depart(m, d) ==
  LET i == d[2]
      k == d[3]
      v == d[4]
  IN CASE d[1] = "none" -> m
       [] d[1] = "staleAvailable" -> [m EXCEPT !.resources[i].available = v]
       [] d[1] = "flippedFlag" -> [m EXCEPT !.resources[i].isMultiInstance = ~@]
       [] d[1] = "negativeAllocation" -> [m EXCEPT !.processes[i].allocation[k] = -1]
       [] d[1] = "negativeRequest" -> [m EXCEPT !.processes[i].request[k] = -1]
       [] d[1] = "missingAllocation" ->
            [m EXCEPT !.processes[i].allocation = Without(@, k)]
       [] d[1] = "missingRequest" -> [m EXCEPT !.processes[i].request = Without(@, k)]
       [] d[1] = "unknownAllocation" ->
            [m EXCEPT !.processes[i].allocation = With(@, k, v)]
       [] d[1] = "unknownRequest" -> [m EXCEPT !.processes[i].request = With(@, k, v)]
       [] d[1] = "repeatedProcessId" -> [m EXCEPT !.processes[i].id = m.processes[1].id]
       [] d[1] = "repeatedResourceId" ->
            [m EXCEPT !.resources[i].id = m.resources[1].id]

\* ------------------------------------------------------------- actions

\* The sample matrix the editor loads (ResourceTable.tsx lines 33-47).
sampleData ==
  [processes |-> << Process("P1", [R1 |-> 1, R2 |-> 0], [R1 |-> 0, R2 |-> 1]),
                    Process("P2", [R1 |-> 0, R2 |-> 1], [R1 |-> 1, R2 |-> 0]),
                    Process("P3", [R1 |-> 0, R2 |-> 1], [R1 |-> 0, R2 |-> 0]) >>,
   resources |-> << Resource("R1", 1, 0, FALSE), Resource("R2", 2, 0, TRUE) >>]

\* The application as it is mounted (DeadlockDetector.tsx lines 24-32,
\* ResourceTable.tsx lines 20-21).
AppStart ==
  /\ appMatrix = [processes |-> <<>>, resources |-> <<>>]
  /\ newResourceInstances = 1
  /\ newResourceMultiInstance = TRUE
  /\ detectionResult = Null
  /\ activeTab = "graph"
  /\ showGraph = FALSE
  /\ showDetection = FALSE
  /\ userActions = 0

ProcessIdsOf(m) == {m.processes[i].id : i \in 1..Len(m.processes)}

\* The state in which a caller holds the matrix m and has called nothing yet.
Start(m) ==
  /\ heap = m.resources
  /\ matrix = [processes |-> m.processes,
               resources |-> [i \in 1..Len(m.resources) |-> i]]
  /\ before = m
  /\ op = "none"
  /\ pc = "idle"
  /\ workingMatrix = [processes |-> <<>>, resources |-> <<>>]
  /\ availableResources = <<>>
  /\ finished = {}
  /\ safeSequence = <<>>
  /\ steps = <<>>
  /\ changeInLastIteration = FALSE
  /\ rounds = 0
  /\ result = NoResult
  /\ calcRet = <<>>
  /\ graph = NoGraph

\* The caller holds the editor's sample matrix, or any matrix of at most MaxProcs
\* processes and MaxRes resources with amounts in Qty and totals in Totals, regular
\* or with one departure.
Init ==
  /\ AppStart
  /\ \/ Start(sampleData)
     \/ \E N \in 0..MaxProcs, R \in 0..MaxRes :
        \E t \in [1..R -> Totals] :
        \E a \in [1..N -> [{ResIdOf(j) : j \in 1..R} -> Qty]] :
        \E q \in [1..N -> [{ResIdOf(j) : j \in 1..R} -> Qty]] :
        \E d \in Departures(N, R) :
          Start(Depart([processes |-> RegularProcesses(N, a, q),
                        resources |-> RegularResources(R, t)], d))

\* A caller invokes the exported calculateAvailableResources on its matrix.
CallCalculate ==
  /\ pc = "idle"
  /\ before' = Deref(heap, matrix)
  /\ heap' = calculateAvailableResources(heap, matrix)
  /\ calcRet' = CalcResourceArray(matrix.resources)
  /\ op' = "calculateAvailableResources"
  /\ pc' = "returned"
  /\ UNCHANGED <<matrix, workingMatrix, availableResources, finished, safeSequence,
                 steps, changeInLastIteration, rounds, result, graph>>
  /\ UNCHANGED appVars

\* A caller invokes generateResourceFlowGraph on its matrix (lines 175-227).
CallGraph ==
  /\ pc = "idle"
  /\ before' = Deref(heap, matrix)
  /\ graph' = generateResourceFlowGraph(Deref(heap, matrix))
  /\ op' = "generateResourceFlowGraph"
  /\ pc' = "returned"
  /\ UNCHANGED <<heap, matrix, workingMatrix, availableResources, finished,
                 safeSequence, steps, changeInLastIteration, rounds, result, calcRet>>
  /\ UNCHANGED appVars

\* detectDeadlock up to its loop (lines 56-82).
DetectStart ==
  /\ pc = "idle"
  /\ before' = Deref(heap, matrix)
  /\ LET copied == [processes |-> matrix.processes,
                    resources |-> JSONCopyAddresses(heap, matrix)]
         h1 == JSONCopyHeap(heap, matrix)
         h2 == calculateAvailableResources(h1, copied)
         wm == [copied EXCEPT !.resources = CalcResourceArray(copied.resources)]
         av == InitialAvailable(h2, wm.resources)
     IN /\ heap' = h2
        /\ workingMatrix' = wm
        /\ availableResources' = av
        /\ steps' = <<Step("Initial available resources",
                           Unfinished(wm.processes, {}), av, <<>>)>>
  /\ finished' = {}
  /\ safeSequence' = <<>>
  /\ changeInLastIteration' = TRUE
  /\ rounds' = 0
  /\ op' = "detectDeadlock"
  /\ pc' = "loop"
  /\ UNCHANGED <<matrix, result, calcRet, graph>>
  /\ UNCHANGED appVars

\* One iteration of the while loop that admits a process (lines 84-133).
RoundAdmit ==
  /\ pc = "loop"
  /\ changeInLastIteration
  /\ rounds <= Len(workingMatrix.processes) + 1
  /\ LET i == FirstAdmissible(workingMatrix.processes, finished, availableResources)
     IN /\ i # 0
        /\ LET process == workingMatrix.processes[i]
               av == Release(process, availableResources)
               fin == finished \cup {process.id}
           IN /\ finished' = fin
              /\ safeSequence' = SafeSequencePush(safeSequence, process.id)
              /\ availableResources' = av
              /\ steps' = Append(steps,
                    Step(AdmissionDescription(process),
                         Unfinished(workingMatrix.processes, fin), av, <<process.id>>))
  /\ changeInLastIteration' = TRUE
  /\ rounds' = rounds + 1
  /\ UNCHANGED <<heap, matrix, before, op, pc, workingMatrix, result, calcRet, graph>>
  /\ UNCHANGED appVars

\* One iteration that admits nobody while processes are unfinished: the deadlock
\* return (lines 84-105, 135-154).
RoundDeadlock ==
  /\ pc = "loop"
  /\ changeInLastIteration
  /\ rounds <= Len(workingMatrix.processes) + 1
  /\ FirstAdmissible(workingMatrix.processes, finished, availableResources) = 0
  /\ Cardinality(finished) < Len(workingMatrix.processes)
  /\ LET deadlocked == Unfinished(workingMatrix.processes, finished)
         all == Append(steps,
                  Step("No process can be satisfied with the available resources. "
                       \o "Deadlock detected involving processes: "
                       \o Join(deadlocked, ", "),
                       deadlocked, availableResources, <<>>))
     IN /\ steps' = all
        /\ result' = [deadlocked |-> deadlocked, safeSequence |-> Null, steps |-> all]
  /\ changeInLastIteration' = FALSE
  /\ rounds' = rounds + 1
  /\ pc' = "returned"
  /\ UNCHANGED <<heap, matrix, before, op, workingMatrix, availableResources, finished,
                 safeSequence, calcRet, graph>>
  /\ UNCHANGED appVars

\* One iteration that admits nobody with every process finished: the loop ends
\* (lines 84-105, 136).
RoundExit ==
  /\ pc = "loop"
  /\ changeInLastIteration
  /\ rounds <= Len(workingMatrix.processes) + 1
  /\ FirstAdmissible(workingMatrix.processes, finished, availableResources) = 0
  /\ ~(Cardinality(finished) < Len(workingMatrix.processes))
  /\ changeInLastIteration' = FALSE
  /\ rounds' = rounds + 1
  /\ pc' = "afterLoop"
  /\ UNCHANGED <<heap, matrix, before, op, workingMatrix, availableResources, finished,
                 safeSequence, steps, result, calcRet, graph>>
  /\ UNCHANGED appVars

\* The safe return with the success step appended whatever the trace holds.
ReturnSafe_AlwaysSuccessStep ==
  /\ pc = "afterLoop"
  /\ LET all == Append(steps,
                  Step("All processes have been executed successfully. "
                       \o "System is in a safe state. Safe sequence: "
                       \o Join(safeSequence, " → "),
                       <<>>, availableResources, <<>>))
     IN /\ steps' = all
        /\ result' = [deadlocked |-> <<>>, safeSequence |-> Some(safeSequence),
                      steps |-> all]
  /\ pc' = "returned"
  /\ UNCHANGED <<heap, matrix, before, op, workingMatrix, availableResources, finished,
                 safeSequence, changeInLastIteration, rounds, calcRet, graph>>
  /\ UNCHANGED appVars

\* The safe return (lines 157-172).
ReturnSafe ==
  /\ pc = "afterLoop"
  /\ LET all == IF Len(steps) > 1
                THEN Append(steps,
                       Step("All processes have been executed successfully. "
                            \o "System is in a safe state. Safe sequence: "
                            \o Join(safeSequence, " → "),
                            <<>>, availableResources, <<>>))
                ELSE steps
     IN /\ steps' = all
        /\ result' = [deadlocked |-> <<>>, safeSequence |-> Some(safeSequence),
                      steps |-> all]
  /\ pc' = "returned"
  /\ UNCHANGED <<heap, matrix, before, op, workingMatrix, availableResources, finished,
                 safeSequence, changeInLastIteration, rounds, calcRet, graph>>
  /\ UNCHANGED appVars

\* The while loop and the returns of detectDeadlock as one computation (lines 84-172):
\* what RoundAdmit, RoundDeadlock, RoundExit and ReturnSafe do in turn.
RECURSIVE DetectLoop(_, _, _, _, _)
DetectLoop(processes, fin, av, seq, trace) ==
  LET i == FirstAdmissible(processes, fin, av) IN
  IF i # 0
  THEN LET process == processes[i]
           av2 == Release(process, av)
           fin2 == fin \cup {process.id}
       IN DetectLoop(processes, fin2, av2, SafeSequencePush(seq, process.id),
                     Append(trace, Step(AdmissionDescription(process),
                                        Unfinished(processes, fin2), av2,
                                        <<process.id>>)))
  ELSE IF Cardinality(fin) < Len(processes)
  THEN LET deadlocked == Unfinished(processes, fin)
       IN [deadlocked |-> deadlocked, safeSequence |-> Null,
           steps |-> Append(trace,
                      Step("No process can be satisfied with the available resources. "
                           \o "Deadlock detected involving processes: "
                           \o Join(deadlocked, ", "),
                           deadlocked, av, <<>>))]
  ELSE [deadlocked |-> <<>>, safeSequence |-> Some(seq),
        steps |-> IF Len(trace) > 1
                  THEN Append(trace,
                         Step("All processes have been executed successfully. "
                              \o "System is in a safe state. Safe sequence: "
                              \o Join(seq, " → "),
                              <<>>, av, <<>>))
                  ELSE trace]

\* detectDeadlock as a function of the matrix value m (lines 56-173): the result of
\* the run that DetectStart begins on a caller holding m.
detectDeadlock(m) ==
  LET addresses == [j \in 1..Len(m.resources) |-> j]
      copied == [processes |-> m.processes, resources |-> addresses]
      h == calculateAvailableResources(m.resources, copied)
      av == InitialAvailable(h, CalcResourceArray(addresses))
  IN DetectLoop(m.processes, {}, av, <<>>,
                <<Step("Initial available resources",
                       Unfinished(m.processes, {}), av, <<>>)>>)

\* An iteration of the outer loop (lines 84-155).
Round == RoundAdmit \/ RoundDeadlock \/ RoundExit

Next ==
  \/ CallCalculate
  \/ CallGraph
  \/ DetectStart
  \/ RoundAdmit
  \/ RoundDeadlock
  \/ RoundExit
  \/ ReturnSafe

Spec == Init /\ [][Next]_vars

\* The loop runs to its return once detectDeadlock is called: it is synchronous code.
FairSpec ==
  Spec /\ WF_vars(RoundAdmit \/ RoundDeadlock \/ RoundExit \/ ReturnSafe)

\* ------------------------------------------------------------- the application

\* What the user types: ids of MaxProcs processes and MaxRes resources, and integers
\* from -1 up (the number inputs' min attributes do not stop typed text).
TypedProcessIds == {ProcIdOf(i) : i \in 1..MaxProcs}
TypedResourceIds == {ResIdOf(j) : j \in 1..MaxRes}
TypedCounts == -1..MaxTotal
TypedAmounts == -1..MaxQty

\* parseInt(e.target.value) || fallback (ResourceTable.tsx lines 268, 332, 349): 0, like
\* text that is no number, gives the fallback.
ParseIntOr(typed, fallback) == IF typed = 0 THEN fallback ELSE typed

\* One more user action, of at most MaxUserActions.
UserActs == userActions < MaxUserActions /\ userActions' = userActions + 1

\* The table and its cells are rendered (ResourceTable.tsx line 288).
TableShown == Len(appMatrix.resources) > 0 /\ Len(appMatrix.processes) > 0

\* A map with amount 0 for every resource id of the list (ResourceTable.tsx lines 76-79).
ZeroMap(resources) == [r \in {resources[j].id : j \in 1..Len(resources)} |-> 0]

\* onChange of the instance-count input, shown while the Multi switch is on
\* (ResourceTable.tsx lines 263-270).
setNewResourceInstances(typed) ==
  /\ newResourceMultiInstance
  /\ newResourceInstances' = ParseIntOr(typed, 1)
  /\ UNCHANGED <<appMatrix, newResourceMultiInstance, detectionResult, activeTab,
                 showGraph, showDetection>>
  /\ UNCHANGED algVars
  /\ UserActs

\* The Multi switch (ResourceTable.tsx lines 273-277).
setNewResourceMultiInstance ==
  /\ newResourceMultiInstance' = ~newResourceMultiInstance
  /\ UNCHANGED <<appMatrix, newResourceInstances, detectionResult, activeTab,
                 showGraph, showDetection>>
  /\ UNCHANGED algVars
  /\ UserActs

\* ResourceTable.tsx lines 59-87, with newProcessId typed as id.
addProcess(id) ==
  /\ ~\E i \in 1..Len(appMatrix.processes) : appMatrix.processes[i].id = id
  /\ appMatrix' = [appMatrix EXCEPT !.processes =
                     Append(@, Process(id, ZeroMap(appMatrix.resources),
                                       ZeroMap(appMatrix.resources)))]
  /\ UNCHANGED <<newResourceInstances, newResourceMultiInstance, detectionResult,
                 activeTab, showGraph, showDetection>>
  /\ UNCHANGED algVars
  /\ UserActs

\* ResourceTable.tsx lines 89-126, with newResourceId typed as id.
addResource(id) ==
  /\ ~\E j \in 1..Len(appMatrix.resources) : appMatrix.resources[j].id = id
  /\ LET instances == IF newResourceMultiInstance THEN newResourceInstances ELSE 1
     IN appMatrix' =
          [processes |->
             [i \in 1..Len(appMatrix.processes) |->
                [appMatrix.processes[i] EXCEPT
                   !.allocation = With(@, id, 0), !.request = With(@, id, 0)]],
           resources |->
             Append(appMatrix.resources,
                    Resource(id, instances, instances, newResourceMultiInstance))]
  /\ newResourceInstances' = 1
  /\ UNCHANGED <<newResourceMultiInstance, detectionResult, activeTab, showGraph,
                 showDetection>>
  /\ UNCHANGED algVars
  /\ UserActs

\* ResourceTable.tsx lines 128-134.
removeProcess(processId) ==
  /\ TableShown
  /\ \E i \in 1..Len(appMatrix.processes) : appMatrix.processes[i].id = processId
  /\ LET keep(p) == p.id # processId
     IN appMatrix' = [appMatrix EXCEPT !.processes = SelectSeq(@, keep)]
  /\ UNCHANGED <<newResourceInstances, newResourceMultiInstance, detectionResult,
                 activeTab, showGraph, showDetection>>
  /\ UNCHANGED algVars
  /\ UserActs

\* ResourceTable.tsx lines 136-151.
removeResource(resourceId) ==
  /\ TableShown
  /\ \E j \in 1..Len(appMatrix.resources) : appMatrix.resources[j].id = resourceId
  /\ LET keep(r) == r.id # resourceId
     IN appMatrix' =
          [processes |->
             [i \in 1..Len(appMatrix.processes) |->
                [appMatrix.processes[i] EXCEPT
                   !.allocation = Without(@, resourceId),
                   !.request = Without(@, resourceId)]],
           resources |-> SelectSeq(appMatrix.resources, keep)]
  /\ UNCHANGED <<newResourceInstances, newResourceMultiInstance, detectionResult,
                 activeTab, showGraph, showDetection>>
  /\ UNCHANGED algVars
  /\ UserActs

\* The value updateAllocation stores (ResourceTable.tsx lines 154-166).
ClampedAllocation(m, processId, resourceId, value) ==
  LET nonNegative == IF value < 0 THEN 0 ELSE value
      js == {j \in 1..Len(m.resources) : m.resources[j].id = resourceId}
  IN IF js = {} THEN nonNegative
     ELSE LET resource == m.resources[CHOOSE j \in js : \A k \in js : j <= k]
              currentAllocationForResource ==
                SumOver([i \in 1..Len(m.processes) |->
                           IF m.processes[i].id # processId
                           THEN OrZero(m.processes[i].allocation, resourceId) ELSE 0],
                        1..Len(m.processes))
              maxAllowable == resource.total - currentAllocationForResource
          IN IF nonNegative > maxAllowable THEN maxAllowable ELSE nonNegative

\* onChange of an Alloc cell (ResourceTable.tsx lines 153-182, 324-336).
updateAllocation(processId, resourceId, typed) ==
  /\ TableShown
  /\ \E i \in 1..Len(appMatrix.processes) : appMatrix.processes[i].id = processId
  /\ \E j \in 1..Len(appMatrix.resources) : appMatrix.resources[j].id = resourceId
  /\ LET value == ClampedAllocation(appMatrix, processId, resourceId,
                                    ParseIntOr(typed, 0))
     IN appMatrix' =
          [appMatrix EXCEPT !.processes =
             [i \in 1..Len(@) |->
                IF @[i].id = processId
                THEN [@[i] EXCEPT !.allocation = With(@, resourceId, value)]
                ELSE @[i]]]
  /\ UNCHANGED <<newResourceInstances, newResourceMultiInstance, detectionResult,
                 activeTab, showGraph, showDetection>>
  /\ UNCHANGED algVars
  /\ UserActs

\* onChange of a Req cell (ResourceTable.tsx lines 184-202, 341-353).
updateRequest(processId, resourceId, typed) ==
  /\ TableShown
  /\ \E i \in 1..Len(appMatrix.processes) : appMatrix.processes[i].id = processId
  /\ \E j \in 1..Len(appMatrix.resources) : appMatrix.resources[j].id = resourceId
  /\ LET parsed == ParseIntOr(typed, 0)
         value == IF parsed < 0 THEN 0 ELSE parsed
     IN appMatrix' =
          [appMatrix EXCEPT !.processes =
             [i \in 1..Len(@) |->
                IF @[i].id = processId
                THEN [@[i] EXCEPT !.request = With(@, resourceId, value)]
                ELSE @[i]]]
  /\ UNCHANGED <<newResourceInstances, newResourceMultiInstance, detectionResult,
                 activeTab, showGraph, showDetection>>
  /\ UNCHANGED algVars
  /\ UserActs

\* ResourceTable.tsx lines 33-47.
loadSampleExample ==
  /\ appMatrix' = sampleData
  /\ UNCHANGED <<newResourceInstances, newResourceMultiInstance, detectionResult,
                 activeTab, showGraph, showDetection>>
  /\ UNCHANGED algVars
  /\ UserActs

\* ResourceTable.tsx lines 204-207; the button is rendered while there are processes
\* (line 379).
clearTable ==
  /\ Len(appMatrix.processes) > 0
  /\ appMatrix' = [processes |-> <<>>, resources |-> <<>>]
  /\ UNCHANGED <<newResourceInstances, newResourceMultiInstance, detectionResult,
                 activeTab, showGraph, showDetection>>
  /\ UNCHANGED algVars
  /\ UserActs

\* DeadlockDetector.tsx lines 36-39.
handleTabChange(value) ==
  /\ activeTab # value
  /\ activeTab' = value
  /\ UNCHANGED <<appMatrix, newResourceInstances, newResourceMultiInstance,
                 detectionResult, showGraph, showDetection>>
  /\ UNCHANGED algVars
  /\ UserActs

\* The Show Allocation Graph button (DeadlockDetector.tsx lines 106-111).
setShowGraph ==
  /\ activeTab = "graph"
  /\ ~showGraph
  /\ showGraph' = TRUE
  /\ UNCHANGED <<appMatrix, newResourceInstances, newResourceMultiInstance,
                 detectionResult, activeTab, showDetection>>
  /\ UNCHANGED algVars
  /\ UserActs

\* The Show Detection Panel button (DeadlockDetector.tsx lines 119-124).
setShowDetection ==
  /\ activeTab = "detection"
  /\ ~showDetection
  /\ showDetection' = TRUE
  /\ UNCHANGED <<appMatrix, newResourceInstances, newResourceMultiInstance,
                 detectionResult, activeTab, showGraph>>
  /\ UNCHANGED algVars
  /\ UserActs

\* The Detect Deadlock button of the rendered panel (DeadlockDetector.tsx lines
\* 157-166, 126): the call runs to its return inside the handler.
runDetection ==
  /\ activeTab = "detection"
  /\ showDetection
  /\ ~(Len(appMatrix.processes) = 0 \/ Len(appMatrix.resources) = 0)
  /\ detectionResult' = Some(detectDeadlock(appMatrix))
  /\ UNCHANGED <<appMatrix, newResourceInstances, newResourceMultiInstance,
                 activeTab, showGraph, showDetection>>
  /\ UNCHANGED algVars
  /\ UserActs

\* DeadlockDetector.tsx line 34.
deadlockedProcesses ==
  IF detectionResult = Null THEN <<>> ELSE detectionResult[1].deadlocked

\* The process nodes the graph's effect sets, each with its `deadlocked` flag
\* (DeadlockDetector.tsx lines 414-432).
ProcessNodes(m, deadlockedIds) ==
  IF Len(m.processes) = 0 \/ Len(m.resources) = 0 THEN <<>>
  ELSE LET isProcess(n) == n.type = "process"
           graphNodes == SelectSeq(generateResourceFlowGraph(m).nodes, isProcess)
       IN [i \in 1..Len(graphNodes) |->
             [id |-> graphNodes[i].id, type |-> "process",
              data |-> [label |-> graphNodes[i].data.label,
                        deadlocked |-> graphNodes[i].id \in Range(deadlockedIds)]]]

\* The process nodes on screen: the graph is mounted on its tab once shown
\* (DeadlockDetector.tsx lines 105-116).
DisplayedProcessNodes ==
  IF activeTab = "graph" /\ showGraph
  THEN ProcessNodes(appMatrix, deadlockedProcesses) ELSE <<>>

AppInit ==
  /\ AppStart
  /\ Start([processes |-> <<>>, resources |-> <<>>])

AppNext ==
  \/ \E typed \in TypedCounts : setNewResourceInstances(typed)
  \/ setNewResourceMultiInstance
  \/ \E id \in TypedProcessIds : addProcess(id)
  \/ \E id \in TypedResourceIds : addResource(id)
  \/ \E id \in TypedProcessIds \cup ProcessIdsOf(sampleData) : removeProcess(id)
  \/ \E id \in TypedResourceIds : removeResource(id)
  \/ \E processId \in TypedProcessIds \cup ProcessIdsOf(sampleData),
        resourceId \in TypedResourceIds, typed \in TypedAmounts :
       updateAllocation(processId, resourceId, typed)
  \/ \E processId \in TypedProcessIds \cup ProcessIdsOf(sampleData),
        resourceId \in TypedResourceIds, typed \in TypedAmounts :
       updateRequest(processId, resourceId, typed)
  \/ loadSampleExample
  \/ clearTable
  \/ \E value \in {"graph", "detection"} : handleTabChange(value)
  \/ setShowGraph
  \/ setShowDetection
  \/ runDetection

\* The application: the user's actions in any order.
AppSpec == AppInit /\ [][AppNext]_vars

\* ------------------------------------------------------------- vocabulary of the claims

Detecting == op = "detectDeadlock"
Detected == op = "detectDeadlock" /\ pc = "returned"
Calculated == op = "calculateAvailableResources" /\ pc = "returned"
Graphed == op = "generateResourceFlowGraph" /\ pc = "returned"

ProcessIds(m) == {m.processes[i].id : i \in 1..Len(m.processes)}
ResourceIds(m) == {m.resources[j].id : j \in 1..Len(m.resources)}

UniqueProcessIds(m) ==
  \A i, j \in 1..Len(m.processes) : m.processes[i].id = m.processes[j].id => i = j
UniqueResourceIds(m) ==
  \A i, j \in 1..Len(m.resources) : m.resources[i].id = m.resources[j].id => i = j

\* A process's allocation of resource id r, a missing entry counting as 0.
AllocOf(process, r) ==
  IF r \in DOMAIN process.allocation THEN process.allocation[r] ELSE 0

NonNegativeAllocations(m) ==
  \A i \in 1..Len(m.processes) :
    \A r \in DOMAIN m.processes[i].allocation : m.processes[i].allocation[r] >= 0
NonNegativeRequests(m) ==
  \A i \in 1..Len(m.processes) :
    \A r \in DOMAIN m.processes[i].request : m.processes[i].request[r] >= 0

\* total minus the sum of the allocations, for the j-th resource of the list.
TotalMinusAllocated(m, j) ==
  m.resources[j].total
  - SumOver([i \in 1..Len(m.processes) |-> AllocOf(m.processes[i], m.resources[j].id)],
            1..Len(m.processes))

AllocationWithinTotal(m) == \A j \in 1..Len(m.resources) : TotalMinusAllocated(m, j) >= 0

\* Every allocation and request entry names a resource of the matrix.
KnownResourceIds(m) ==
  \A i \in 1..Len(m.processes) :
    (DOMAIN m.processes[i].allocation \cup DOMAIN m.processes[i].request)
      \subseteq ResourceIds(m)

\* The data-model invariants of the matrix.
ValidMatrix(m) ==
  /\ UniqueProcessIds(m)
  /\ UniqueResourceIds(m)
  /\ NonNegativeAllocations(m)
  /\ NonNegativeRequests(m)
  /\ AllocationWithinTotal(m)

\* The ids of a nullable sequence of ids.
IdsOf(opt) == IF opt = Null THEN {} ELSE Range(opt[1])

\* The ids admitted by the steps of a trace.
AdmittedIn(trace) ==
  UNION {Range(trace[k].processedThisRound) : k \in 1..Len(trace)}

\* The initial available amount of resource id r as total minus allocations (0 for an
\* id that names no resource; the first resource of that id if several share it).
InitialVector(m, r) ==
  LET js == {j \in 1..Len(m.resources) : m.resources[j].id = r}
  IN IF js = {} THEN 0
     ELSE TotalMinusAllocated(m, CHOOSE j \in js : \A j2 \in js : j <= j2)

\* The amount of r available to the k-th process of the order ord (process indices):
\* the initial amount plus what the earlier processes of ord release.
AvailableAtTurn(m, ord, k, r) ==
  InitialVector(m, r)
  + SumOver([j \in 1..(k - 1) |-> AllocOf(m.processes[ord[j]], r)], 1..(k - 1))

\* ord, a sequence of process indices, lists every process once and each can be
\* satisfied at its turn.
IsSafeOrder(m, ord) ==
  /\ Len(ord) = Len(m.processes)
  /\ Range(ord) = 1..Len(m.processes)
  /\ \A k \in 1..Len(ord) :
       \A r \in DOMAIN m.processes[ord[k]].request :
         m.processes[ord[k]].request[r] > 0
           => m.processes[ord[k]].request[r] <= AvailableAtTurn(m, ord, k, r)

IndexOfId(m, id) == CHOOSE i \in 1..Len(m.processes) : m.processes[i].id = id

\* A sequence of process ids is a safe sequence of m.
IsSafeSequence(m, ids) ==
  /\ Range(ids) \subseteq ProcessIds(m)
  /\ IsSafeOrder(m, [k \in 1..Len(ids) |-> IndexOfId(m, ids[k])])

SafeOrderExists(m) ==
  \E f \in Permutations(1..Len(m.processes)) :
    IsSafeOrder(m, [k \in 1..Len(m.processes) |-> f[k]])

\* ------------------------------------------------------------- C1

\* C1 as stated: for a matrix that satisfies the data-model invariants, every input
\* process id is in exactly one of result.safeSequence and result.deadlocked.
C1_Coverage ==
  (Detected /\ ValidMatrix(before) /\ KnownResourceIds(before)) =>
    \A id \in ProcessIds(before) :
      (id \in IdsOf(result.safeSequence)) # (id \in Range(result.deadlocked))

\* C1 amended: for a matrix that satisfies the data-model invariants, no input process
\* id is in both lists, and an id is in neither exactly when it was admitted in a run
\* that ends in deadlock (safeSequence is then null).
C1_CoverageExceptAdmittedBeforeDeadlock ==
  (Detected /\ ValidMatrix(before)) =>
    \A id \in ProcessIds(before) :
      LET inSafe == id \in IdsOf(result.safeSequence)
          inDeadlocked == id \in Range(result.deadlocked)
      IN /\ ~(inSafe /\ inDeadlocked)
         /\ (~inSafe /\ ~inDeadlocked)
              <=> (result.deadlocked # <<>> /\ id \in AdmittedIn(result.steps))

\* A valid matrix whose run admits one process and then reports the other deadlocked.
C1_Witness ==
  /\ Detected
  /\ ValidMatrix(before)
  /\ KnownResourceIds(before)
  /\ Len(before.processes) = 2
  /\ Len(result.deadlocked) = 1
  /\ AdmittedIn(result.steps) # {}

\* ------------------------------------------------------------- C2

\* C2 as stated: a returned non-null safeSequence lists every process exactly once and
\* each process's positive requests are within total minus allocations plus the
\* allocations of the processes before it.
C2_SafeSequenceGenuine ==
  (Detected /\ result.safeSequence # Null) =>
    /\ UniqueProcessIds(before)
    /\ IsSafeSequence(before, result.safeSequence[1])

\* C2 amended: the same for a matrix whose resource ids are unique.
C2_SafeSequenceGenuineUniqueResources ==
  (Detected /\ result.safeSequence # Null /\ UniqueResourceIds(before)) =>
    /\ UniqueProcessIds(before)
    /\ IsSafeSequence(before, result.safeSequence[1])

\* A safe run of two processes in which the second of the list is admitted first.
C2_Witness ==
  /\ Detected
  /\ UniqueResourceIds(before)
  /\ result.safeSequence = Some(<<"P2", "P1">>)

\* ------------------------------------------------------------- C3

\* C3: for unique ids and non-negative allocations, deadlocked = [] exactly when some
\* ordering of all processes is a safe sequence.
C3_GreedyComplete ==
  (/\ Detected
   /\ UniqueProcessIds(before)
   /\ UniqueResourceIds(before)
   /\ NonNegativeAllocations(before)) =>
    ((result.deadlocked = <<>>) <=> SafeOrderExists(before))

\* A run that reports no deadlock although the first process of the list had to wait.
C3_Witness ==
  /\ Detected
  /\ UniqueProcessIds(before)
  /\ UniqueResourceIds(before)
  /\ NonNegativeAllocations(before)
  /\ result.deadlocked = <<>>
  /\ Len(before.processes) = 2
  /\ result.safeSequence[1][1] = before.processes[2].id

\* ------------------------------------------------------------- C4

\* C4: during and after a call of detectDeadlock or generateResourceFlowGraph the
\* caller's matrix (process list, maps, every field of every resource) is what it was
\* when the call began.
C4_CallerMatrixUnchanged ==
  (Detecting \/ Graphed) => Deref(heap, matrix) = before

\* detectDeadlock has returned for a matrix whose stored `available` differs from what
\* the calculator computes on the working copy.
C4_Witness ==
  /\ Detected
  /\ \E j \in 1..Len(before.resources) :
       /\ before.resources[j].available # TotalMinusAllocated(before, j)
       /\ heap[workingMatrix.resources[j]].available = TotalMinusAllocated(before, j)

\* ------------------------------------------------------------- C5

\* C5: calculateAvailableResources leaves the `available` of every input resource as it
\* was and returns objects that are not the input's.
C5_CalculatorDoesNotMutate ==
  Calculated =>
    /\ Deref(heap, matrix) = before
    /\ Range(calcRet) \cap Range(matrix.resources) = {}

\* ------------------------------------------------------------- C6

\* C6 as stated: for every matrix the calculator returns one resource per input
\* resource, in order, with available = total minus the allocations of that resource.
C6_AvailableIsTotalMinusAllocated ==
  Calculated =>
    /\ Len(calcRet) = Len(before.resources)
    /\ \A j \in 1..Len(calcRet) :
         /\ heap[calcRet[j]].id = before.resources[j].id
         /\ heap[calcRet[j]].total = before.resources[j].total
         /\ heap[calcRet[j]].available = TotalMinusAllocated(before, j)

\* C6 amended: the same for every matrix whose resource ids are unique.
C6_AvailableIsTotalMinusAllocatedUniqueResources ==
  (Calculated /\ UniqueResourceIds(before)) =>
    /\ Len(calcRet) = Len(before.resources)
    /\ \A j \in 1..Len(calcRet) :
         /\ heap[calcRet[j]].id = before.resources[j].id
         /\ heap[calcRet[j]].total = before.resources[j].total
         /\ heap[calcRet[j]].available = TotalMinusAllocated(before, j)

\* The calculator has returned for a matrix with a stale `available`, an allocation
\* map lacking an entry and another process holding a unit.
C6_Witness ==
  /\ Calculated
  /\ UniqueResourceIds(before)
  /\ \E j \in 1..Len(before.resources) :
       /\ before.resources[j].available # before.resources[j].total
       /\ TotalMinusAllocated(before, j) < before.resources[j].total
       /\ heap[calcRet[j]].available = TotalMinusAllocated(before, j)

\* ------------------------------------------------------------- C8

\* The availability of every resource id does not decrease from any step of the trace
\* to the next (an id without an entry counting as 0).
NonDecreasing(trace) ==
  \A i \in 1..(Len(trace) - 1) :
    \A r \in DOMAIN trace[i].availableResources \cup DOMAIN trace[i + 1].availableResources :
      OrZero(trace[i + 1].availableResources, r) >= OrZero(trace[i].availableResources, r)

\* C8 as stated: within one run, availability never decreases along the step trace.
C8_MonotonicRelease == Detecting => NonDecreasing(steps)

\* C8 amended: within one run on a matrix whose allocation amounts are all
\* non-negative, availability never decreases along the step trace.
C8_MonotonicReleaseNonNegative ==
  (Detecting /\ NonNegativeAllocations(before)) => NonDecreasing(steps)

\* A returned run without negative allocations in which an admission raised the
\* availability of a resource.
C8_Witness ==
  /\ Detected
  /\ NonNegativeAllocations(before)
  /\ \E i \in 1..(Len(steps) - 1) :
       \E r \in DOMAIN steps[i].availableResources :
         steps[i + 1].availableResources[r] > steps[i].availableResources[r]

\* ------------------------------------------------------------- C9

\* C9 as stated, its bound: a run takes at most N iterations of the outer loop for N
\* processes (checked where there is a process: N >= 1).
C9_WithinNRounds ==
  (Detecting /\ Len(before.processes) >= 1) => rounds <= Len(before.processes)

\* C9 amended: every run halts, within N + 1 iterations of the outer loop for N
\* processes, and each iteration either admits exactly one process or ends the loop.
C9_HaltsWithinNPlusOneRounds ==
  /\ [](Detecting => rounds <= Len(before.processes) + 1)
  /\ [][Round =>
          \/ /\ pc' = "loop"
             /\ Len(safeSequence') = Len(safeSequence) + 1
             /\ Cardinality(finished') = Cardinality(finished) + 1
          \/ /\ pc' # "loop"
             /\ safeSequence' = safeSequence
             /\ finished' = finished]_vars
  /\ ((pc = "loop") ~> (pc = "returned"))

\* A run of two processes that returned after three iterations.
C9_Witness ==
  /\ Detected
  /\ Len(before.processes) = 2
  /\ rounds = 3

\* ------------------------------------------------------------- C10

AdmissionSteps(trace) == {k \in 1..Len(trace) : trace[k].processedThisRound # <<>>}

\* C10: the steps that admit a process are at most as many as the processes, and no
\* process id is admitted by two of them.
C10_AdmissionStepsBounded ==
  Detecting =>
    /\ Cardinality(AdmissionSteps(steps)) <= Len(before.processes)
    /\ \A k1, k2 \in AdmissionSteps(steps) :
         k1 # k2 =>
           Range(steps[k1].processedThisRound) \cap Range(steps[k2].processedThisRound) = {}

\* A returned run of two processes with two admission steps.
C10_Witness ==
  /\ Detected
  /\ Len(before.processes) = 2
  /\ Cardinality(AdmissionSteps(result.steps)) = 2

\* ------------------------------------------------------------- C11

\* Scenario A: two processes that each hold one single-instance resource and request
\* the other's.
ScenarioAProcesses ==
  << Process("P1", [R1 |-> 1, R2 |-> 0], [R1 |-> 0, R2 |-> 1]),
     Process("P2", [R1 |-> 0, R2 |-> 1], [R1 |-> 1, R2 |-> 0]) >>

IsScenarioA(m) ==
  /\ m.processes = ScenarioAProcesses
  /\ [j \in 1..Len(m.resources) |-> m.resources[j].id] = <<"R1", "R2">>
  /\ [j \in 1..Len(m.resources) |-> m.resources[j].total] = <<1, 1>>

\* C11: on scenario A the initial available vector is {R1: 0, R2: 0}, no process is
\* admitted, deadlocked is [P1, P2] and safeSequence is null.
C11_ScenarioA ==
  (Detected /\ IsScenarioA(before)) =>
    /\ result.steps[1].availableResources = [R1 |-> 0, R2 |-> 0]
    /\ AdmittedIn(result.steps) = {}
    /\ result.deadlocked = <<"P1", "P2">>
    /\ result.safeSequence = Null

\* detectDeadlock has returned on scenario A.
C11_Witness ==
  /\ Detected
  /\ IsScenarioA(before)
  /\ Len(result.steps) = 2

\* ------------------------------------------------------------- C12

\* C12: on scenario B, the editor's sample, the initial available vector is
\* {R1: 0, R2: 0}; the run admits P3 (available {R1: 0, R2: 1}), then P1 (available
\* {R1: 1, R2: 1}), then P2; safeSequence is [P3, P1, P2] and deadlocked is [].
C12_ScenarioB ==
  (Detected /\ before = sampleData) =>
    /\ Len(result.steps) >= 4
    /\ result.steps[1].availableResources = [R1 |-> 0, R2 |-> 0]
    /\ result.steps[1].processedThisRound = <<>>
    /\ result.steps[2].processedThisRound = <<"P3">>
    /\ result.steps[2].availableResources = [R1 |-> 0, R2 |-> 1]
    /\ result.steps[3].processedThisRound = <<"P1">>
    /\ result.steps[3].availableResources = [R1 |-> 1, R2 |-> 1]
    /\ result.steps[4].processedThisRound = <<"P2">>
    /\ AdmittedIn(SubSeq(result.steps, 5, Len(result.steps))) = {}
    /\ result.safeSequence = Some(<<"P3", "P1", "P2">>)
    /\ result.deadlocked = <<>>

\* detectDeadlock has returned on the sample with three admissions.
C12_Witness ==
  /\ Detected
  /\ before = sampleData
  /\ Cardinality(AdmittedIn(result.steps)) = 3

\* ------------------------------------------------------------- C13

\* The resource ids for which a map of a process holds a strictly positive amount.
PositiveIds(map) == {r \in DOMAIN map : map[r] > 0}

\* C13: the graph has |processes| + |resources| nodes, and as many edges as the sum
\* over processes of the number of resource ids with allocation > 0 plus the number
\* of resource ids with request > 0.
C13_GraphCounts ==
  Graphed =>
    /\ Len(graph.nodes) = Len(before.processes) + Len(before.resources)
    /\ Len(graph.edges) =
         SumOver([i \in 1..Len(before.processes) |->
                    Cardinality(PositiveIds(before.processes[i].allocation))
                    + Cardinality(PositiveIds(before.processes[i].request))],
                 1..Len(before.processes))

\* A graph of two processes and two resources with edges of both kinds, built from a
\* matrix that also has entries of amount 0.
C13_Witness ==
  /\ Graphed
  /\ Len(graph.nodes) = 4
  /\ \E k \in 1..Len(graph.edges) : graph.edges[k].type = "allocation"
  /\ \E k \in 1..Len(graph.edges) : graph.edges[k].type = "request"
  /\ \E i \in 1..Len(before.processes) :
       \E r \in DOMAIN before.processes[i].allocation :
         before.processes[i].allocation[r] = 0

\* ------------------------------------------------------------- C14

\* What the claim says of an edge: its type, its ends and its amount.
EdgeFacts(e) == <<e.type, e.source, e.target, e.data.amount>>

\* The (process position, resource id) pairs with a strictly positive allocation, and
\* those with a strictly positive request.
AllocationPairs(m) ==
  UNION {{<<i, r>> : r \in PositiveIds(m.processes[i].allocation)} :
           i \in 1..Len(m.processes)}
RequestPairs(m) ==
  UNION {{<<i, r>> : r \in PositiveIds(m.processes[i].request)} :
           i \in 1..Len(m.processes)}

AllocationFacts(m, pr) ==
  <<"allocation", pr[2], m.processes[pr[1]].id, m.processes[pr[1]].allocation[pr[2]]>>
RequestFacts(m, pr) ==
  <<"request", m.processes[pr[1]].id, pr[2], m.processes[pr[1]].request[pr[2]]>>

\* C14: the edges are one allocation edge (resource id -> process id, with the amount)
\* per pair with allocation > 0 and one request edge (process id -> resource id, with
\* the amount) per pair with request > 0, and nothing else.
C14_EdgesExactlyPositivePairs ==
  Graphed =>
    LET edges == graph.edges
        expected == {AllocationFacts(before, pr) : pr \in AllocationPairs(before)}
                    \cup {RequestFacts(before, pr) : pr \in RequestPairs(before)}
        found == {EdgeFacts(edges[k]) : k \in 1..Len(edges)}
    IN /\ found = expected
       /\ \A f \in found :
            Cardinality({k \in 1..Len(edges) : EdgeFacts(edges[k]) = f})
            = Cardinality({pr \in AllocationPairs(before) :
                             AllocationFacts(before, pr) = f})
              + Cardinality({pr \in RequestPairs(before) : RequestFacts(before, pr) = f})

\* A graph with an allocation edge and a request edge, from a matrix in which some
\* process has an entry of amount 0 and another has no entry for a resource.
C14_Witness ==
  /\ Graphed
  /\ AllocationPairs(before) # {}
  /\ RequestPairs(before) # {}
  /\ \E i \in 1..Len(before.processes) :
       \E r \in DOMAIN before.processes[i].request : before.processes[i].request[r] = 0
  /\ \E i \in 1..Len(before.processes) :
       ResourceIds(before) \ DOMAIN before.processes[i].allocation # {}

\* ------------------------------------------------------------- C15

\* The ids the steps of a trace admitted, in the order of the steps, from step k on.
RECURSIVE ProcessedInOrder(_, _)
ProcessedInOrder(trace, k) ==
  IF k > Len(trace) THEN <<>>
  ELSE trace[k].processedThisRound \o ProcessedInOrder(trace, k + 1)

\* Every process of the list was admitted: as many admissions as processes.
AllAdmitted == Len(ProcessedInOrder(result.steps, 1)) = Len(before.processes)

\* C15: when every process was admitted, deadlocked is empty and safeSequence lists
\* the admitted ids in the order in which the admission steps occurred.
C15_SafeSequenceIsAdmissionOrder ==
  (Detected /\ AllAdmitted) =>
    /\ result.deadlocked = <<>>
    /\ result.safeSequence = Some(ProcessedInOrder(result.steps, 1))

\* A run that admitted both of two processes, the second of the list first.
C15_Witness ==
  /\ Detected
  /\ AllAdmitted
  /\ Len(before.processes) = 2
  /\ ProcessedInOrder(result.steps, 1) = <<"P2", "P1">>

\* ------------------------------------------------------------- C16

\* The amount of resource id r in an availability vector, 0 when it has no entry.
AvailableOf(av, r) == IF r \in DOMAIN av THEN av[r] ELSE 0

\* Every strictly positive request of the process is within the availability vector.
Satisfiable(process, av) ==
  \A r \in DOMAIN process.request :
    process.request[r] > 0 => process.request[r] <= AvailableOf(av, r)

\* The ids of the processes of m, in list order, that are not in the set done.
NotIn(m, done) ==
  LET keep(id) == id \notin done
  IN SelectSeq([i \in 1..Len(m.processes) |-> m.processes[i].id], keep)

IsInitialSnapshot(step, m) ==
  /\ step.description = "Initial available resources"
  /\ step.remainingProcesses = [i \in 1..Len(m.processes) |-> m.processes[i].id]
  /\ step.processedThisRound = <<>>
  /\ \A j \in 1..Len(m.resources) :
       /\ m.resources[j].id \in DOMAIN step.availableResources
       /\ step.availableResources[m.resources[j].id] = TotalMinusAllocated(m, j)

\* C17 as stated: for every matrix the trace is non-empty and its first element is the
\* initial snapshot, with total minus allocations for every resource.
C17_InitialSnapshot ==
  Detecting =>
    /\ Len(steps) >= 1
    /\ IsInitialSnapshot(steps[1], before)
    /\ Detected => result.steps # <<>> /\ result.steps[1] = steps[1]

\* C17 amended: the same for every matrix whose resource ids are unique.
C17_InitialSnapshotUniqueResources ==
  (Detecting /\ UniqueResourceIds(before)) =>
    /\ Len(steps) >= 1
    /\ IsInitialSnapshot(steps[1], before)
    /\ Detected => result.steps # <<>> /\ result.steps[1] = steps[1]

\* A returned run on a matrix with unique resource ids, a stale `available` and a
\* resource of which a unit is allocated.
C17_Witness ==
  /\ Detected
  /\ UniqueResourceIds(before)
  /\ \E j \in 1..Len(before.resources) :
       /\ before.resources[j].available # before.resources[j].total
       /\ TotalMinusAllocated(before, j) < before.resources[j].total
       /\ result.steps[1].availableResources[before.resources[j].id]
            = TotalMinusAllocated(before, j)

\* ------------------------------------------------------------- C18

\* The matrix m with the `available` of its resources replaced by av and their
\* isMultiInstance flags by fl.
WithAvailableAndFlags(m, av, fl) ==
  [m EXCEPT !.resources =
     [j \in 1..Len(m.resources) |->
        [m.resources[j] EXCEPT !.available = av[j], !.isMultiInstance = fl[j]]]]

\* C18: the result of detectDeadlock is the result on every matrix that differs from
\* the input only in the `available` values and the isMultiInstance flags of its
\* resources.
C18_IgnoresAvailableAndFlags ==
  Detected =>
    \A av \in [1..Len(before.resources) -> 0..MaxTotal] :
      \A fl \in [1..Len(before.resources) -> BOOLEAN] :
        detectDeadlock(WithAvailableAndFlags(before, av, fl)) = result

\* A returned run that admitted a process on a matrix whose stored `available` is not
\* total minus allocations.
C18_Witness ==
  /\ Detected
  /\ AdmittedIn(result.steps) # {}
  /\ \E j \in 1..Len(before.resources) :
       before.resources[j].available # TotalMinusAllocated(before, j)

\* ------------------------------------------------------------- C19

\* The map f with an explicit 0 for every id of ids it has no entry for.
ZeroFilled(f, ids) == [r \in DOMAIN f \cup ids |-> IF r \in DOMAIN f THEN f[r] ELSE 0]

\* The map f without its entries of amount 0 for the ids of ids.
ZeroDropped(f, ids) == [r \in {x \in DOMAIN f : ~(x \in ids /\ f[x] = 0)} |-> f[r]]

\* The matrix m with every missing allocation and request entry of a resource of m
\* written as 0, and m with every such entry of amount 0 left out.
WithZeroEntries(m) ==
  [m EXCEPT !.processes =
     [i \in 1..Len(m.processes) |->
        [m.processes[i] EXCEPT
           !.allocation = ZeroFilled(m.processes[i].allocation, ResourceIds(m)),
           !.request = ZeroFilled(m.processes[i].request, ResourceIds(m))]]]
WithoutZeroEntries(m) ==
  [m EXCEPT !.processes =
     [i \in 1..Len(m.processes) |->
        [m.processes[i] EXCEPT
           !.allocation = ZeroDropped(m.processes[i].allocation, ResourceIds(m)),
           !.request = ZeroDropped(m.processes[i].request, ResourceIds(m))]]]

\* C19: detectDeadlock returns the same deadlocked, safeSequence and steps on the
\* input, on the input with its missing entries written as 0, and on the input with
\* its entries of amount 0 left out.
C19_MissingEntryIsZero ==
  Detected =>
    /\ detectDeadlock(WithZeroEntries(before)) = result
    /\ detectDeadlock(WithoutZeroEntries(before)) = result

\* A returned run that admitted a process on a matrix in which some map lacks an entry
\* for a resource of the matrix.
C19_Witness ==
  /\ Detected
  /\ AdmittedIn(result.steps) # {}
  /\ WithZeroEntries(before) # before

\* ------------------------------------------------------------- C20

\* The positions of the processes of m that are unfinished (id not in done) and
\* satisfiable by the availability vector av.
Qualifying(m, done, av) ==
  {i \in 1..Len(m.processes) :
     m.processes[i].id \notin done /\ Satisfiable(m.processes[i], av)}

\* C20: every admission step admits exactly one process, the first in list order that
\* was unfinished and satisfiable by the availability of the preceding step, and
\* finishes that process only, however many qualified; the run returns only when no
\* process qualifies.
C20_FirstFitAdmission ==
  Detecting =>
    /\ Detected =>
         Qualifying(before, AdmittedIn(steps),
                    steps[Len(steps)].availableResources) = {}
    /\ \A k \in AdmissionSteps(steps) :
         /\ k >= 2
         /\ LET done == AdmittedIn(SubSeq(steps, 1, k - 1))
                ok == Qualifying(before, done, steps[k - 1].availableResources)
            IN /\ ok # {}
               /\ LET first == CHOOSE i \in ok : \A j \in ok : i <= j
                  IN /\ steps[k].processedThisRound = <<before.processes[first].id>>
                     /\ steps[k].remainingProcesses
                          = NotIn(before, done \cup {before.processes[first].id})

\* A run in which both of two processes with different ids qualified at once and the
\* first one was admitted while the second remained.
C20_Witness ==
  /\ Detecting
  /\ Len(steps) >= 2
  /\ UniqueProcessIds(before)
  /\ Cardinality(Qualifying(before, {}, steps[1].availableResources)) = 2
  /\ steps[2].processedThisRound = <<"P1">>
  /\ steps[2].remainingProcesses = <<"P2">>

\* ------------------------------------------------------------- C21

\* The process of m that admission step k of the trace admitted: the first in list
\* order that was unfinished and satisfiable before the step.
AdmittedProcess(m, trace, k) ==
  LET ok == Qualifying(m, AdmittedIn(SubSeq(trace, 1, k - 1)),
                       trace[k - 1].availableResources)
  IN m.processes[CHOOSE i \in ok : \A j \in ok : i <= j]

\* C21: the availability of an admission step is the preceding step's plus the
\* admitted process's allocation for every id of its allocation map, and the
\* preceding step's for every other id; nothing else is added and no request is
\* subtracted.
C21_ReleaseFrame ==
  Detecting =>
    \A k \in AdmissionSteps(steps) :
      LET P == AdmittedProcess(before, steps, k)
          prev == steps[k - 1].availableResources
          now == steps[k].availableResources
      IN /\ steps[k].processedThisRound = <<P.id>>
         /\ DOMAIN now = DOMAIN prev \cup DOMAIN P.allocation
         /\ \A r \in DOMAIN now :
              now[r] = IF r \in DOMAIN P.allocation
                       THEN AvailableOf(prev, r) + P.allocation[r]
                       ELSE prev[r]

\* An admission of a process that holds a unit of one resource and none of another
\* and has a strictly positive request, while another process holds a unit too.
C21_Witness ==
  /\ Detecting
  /\ \E k \in AdmissionSteps(steps) :
       LET P == AdmittedProcess(before, steps, k) IN
         /\ \E r \in DOMAIN P.allocation : P.allocation[r] > 0
         /\ \E r \in DOMAIN steps[k].availableResources : AllocOf(P, r) = 0
         /\ \E r \in DOMAIN P.request : P.request[r] > 0
         /\ \E i \in 1..Len(before.processes) :
              /\ before.processes[i].id # P.id
              /\ \E r \in DOMAIN before.processes[i].allocation :
                   before.processes[i].allocation[r] > 0

\* ------------------------------------------------------------- C22

\* The Detect Deadlock button is on screen and would call the detector.
DetectorReachable == activeTab = "detection" /\ showDetection /\ TableShown

\* C22: after any sequence of editor operations from the empty matrix, the matrix
\* the detector would be handed satisfies the data-model invariants: unique process
\* ids, unique resource ids, no negative allocation or request, and for every
\* resource the allocations summing to at most its total.
C22_EditorKeepsInvariants ==
  DetectorReachable => ValidMatrix(appMatrix)

\* ------------------------------------------------------------- C23

\* Every admission step of the trace has exactly one processed id, lists as remaining
\* the ids of m in list order minus those admitted up to and including the step, and
\* the k-th of them lists N - k remaining processes.
AdmissionStepContents(m, trace) ==
  \A k \in AdmissionSteps(trace) :
    LET admissionsSoFar == Cardinality({j \in AdmissionSteps(trace) : j <= k})
    IN /\ Len(trace[k].processedThisRound) = 1
       /\ trace[k].remainingProcesses = NotIn(m, AdmittedIn(SubSeq(trace, 1, k)))
       /\ Len(trace[k].remainingProcesses) = Len(m.processes) - admissionsSoFar

\* C23 as stated, for any matrix.
C23_AdmissionStepContents ==
  Detecting => AdmissionStepContents(before, steps)

\* C23 amended: the same for every matrix whose process ids are unique.
C23_AdmissionStepContentsUniqueProcesses ==
  (Detecting /\ UniqueProcessIds(before)) => AdmissionStepContents(before, steps)

\* A run on two processes with different ids that admitted both, the second of the
\* list first.
C23_Witness ==
  /\ Detecting
  /\ UniqueProcessIds(before)
  /\ Len(before.processes) = 2
  /\ Len(steps) >= 3
  /\ steps[2].processedThisRound = <<"P2">>
  /\ steps[2].remainingProcesses = <<"P1">>
  /\ steps[3].processedThisRound = <<"P1">>
  /\ steps[3].remainingProcesses = <<>>

\* ------------------------------------------------------------- C24

\* C24: on a run in which all processes finish, the trace is the initial step, the N
\* admission steps and one final step with empty remainingProcesses and empty
\* processedThisRound, N + 2 steps, when N >= 1; when the process list is empty it
\* is the initial step alone, with deadlocked = [] and safeSequence = [].
C24_SuccessStep ==
  (Detected /\ AllAdmitted) =>
    LET N == Len(before.processes)
        n == Len(result.steps)
    IN IF N = 0
       THEN /\ n = 1
            /\ result.deadlocked = <<>>
            /\ result.safeSequence = Some(<<>>)
       ELSE /\ n = N + 2
            /\ AdmissionSteps(result.steps) = 2..(N + 1)
            /\ result.steps[n].remainingProcesses = <<>>
            /\ result.steps[n].processedThisRound = <<>>

\* A returned run in which both of two processes finished.
C24_Witness ==
  /\ Detected
  /\ AllAdmitted
  /\ Len(before.processes) = 2
  /\ Len(result.steps) = 4

\* ------------------------------------------------------------- C25

\* C25: for a matrix with unique process ids, safeSequence is null exactly when
\* deadlocked is non-empty, and safeSequence is a list of all N process ids exactly
\* when deadlocked is empty.
C25_OutcomesExclusive ==
  (Detected /\ UniqueProcessIds(before)) =>
    LET listsAll == /\ result.safeSequence # Null
                    /\ Len(result.safeSequence[1]) = Len(before.processes)
                    /\ Range(result.safeSequence[1]) = ProcessIds(before)
    IN /\ (result.safeSequence = Null) <=> (result.deadlocked # <<>>)
       /\ listsAll <=> (result.deadlocked = <<>>)

\* A returned run on two processes with different ids of which one was admitted and
\* the other is deadlocked.
C25_Witness ==
  /\ Detected
  /\ UniqueProcessIds(before)
  /\ Len(before.processes) = 2
  /\ Len(result.deadlocked) = 1
  /\ result.safeSequence = Null

\* ------------------------------------------------------------- C26

\* The allocation maps of m mention only resources of m.
KnownAllocationIds(m) ==
  \A i \in 1..Len(m.processes) : DOMAIN m.processes[i].allocation \subseteq ResourceIds(m)

\* C26: for a matrix that satisfies the data-model invariants and whose allocation
\* maps mention only its resources, every step has 0 <= availableResources[r] <=
\* total(r) for every resource r, and the final step of a run in which all processes
\* finish has availableResources[r] = total(r).
C26_AvailableWithinTotal ==
  (Detecting /\ ValidMatrix(before) /\ KnownAllocationIds(before)) =>
    /\ \A k \in 1..Len(steps) : \A j \in 1..Len(before.resources) :
         LET r == before.resources[j].id IN
           /\ r \in DOMAIN steps[k].availableResources
           /\ 0 <= steps[k].availableResources[r]
           /\ steps[k].availableResources[r] <= before.resources[j].total
    /\ (Detected /\ AllAdmitted) =>
         \A j \in 1..Len(before.resources) :
           result.steps[Len(result.steps)].availableResources[before.resources[j].id]
             = before.resources[j].total

\* A returned run in which two processes finished and a resource that had no free
\* unit at the start ends with all its units free.
C26_Witness ==
  /\ Detected
  /\ ValidMatrix(before)
  /\ KnownAllocationIds(before)
  /\ AllAdmitted
  /\ Len(before.processes) = 2
  /\ \E j \in 1..Len(before.resources) :
       /\ result.steps[1].availableResources[before.resources[j].id] = 0
       /\ result.steps[Len(result.steps)].availableResources[before.resources[j].id]
            = before.resources[j].total

\* ------------------------------------------------------------- C27

\* The matrix m with its process list reordered by the permutation f of positions.
Reordered(m, f) ==
  [m EXCEPT !.processes = [i \in 1..Len(m.processes) |-> m.processes[f[i]]]]

\* C27: for a matrix with unique ids and non-negative allocations, detectDeadlock
\* reports the same set of deadlocked ids on every permutation of the process list.
C27_DeadlockedSetOrderIndependent ==
  (/\ Detected
   /\ UniqueProcessIds(before)
   /\ UniqueResourceIds(before)
   /\ NonNegativeAllocations(before)) =>
    \A f \in Permutations(1..Len(before.processes)) :
      Range(detectDeadlock(Reordered(before, f)).deadlocked) = Range(result.deadlocked)

\* A returned run on two processes in which the first of the list is deadlocked and
\* the second was admitted.
C27_Witness ==
  /\ Detected
  /\ UniqueProcessIds(before)
  /\ UniqueResourceIds(before)
  /\ NonNegativeAllocations(before)
  /\ Len(before.processes) = 2
  /\ result.deadlocked = <<"P1">>
  /\ AdmittedIn(result.steps) = {"P2"}

\* ------------------------------------------------------------- C28

\* C28: in every step of every run, for any matrix, the key set of
\* availableResources is exactly the set of resource ids of the matrix.
C28_KeySetIsResourceIds ==
  Detecting =>
    \A k \in 1..Len(steps) : DOMAIN steps[k].availableResources = ResourceIds(before)

\* ------------------------------------------------------------- C29

\* C29: a process node is highlighted as deadlocked only if its id is in the
\* deadlocked list that detectDeadlock returns for the matrix now displayed.
C29_HighlightIsCurrent ==
  \A k \in 1..Len(DisplayedProcessNodes) :
    DisplayedProcessNodes[k].data.deadlocked =>
      DisplayedProcessNodes[k].id \in Range(detectDeadlock(appMatrix).deadlocked)

====
